---- MODULE Spec2Model ----
(***************************************************************************)
(* Model of the nextellar scaffold-and-configure pipeline:                 *)
(*   scaffold  (template copy with exclusions, placeholder substitution)   *)
(*   install   (detectPackageManager, getInstallCommand, runInstall,       *)
(*              saveInstallLog)                                            *)
(* Text is modelled by TLA+ strings, character by character; the file     *)
(* system by a function from paths (sequences of entry names, relative to  *)
(* the directory the first process starts in) to nodes.                    *)
(***************************************************************************)
EXTENDS Integers, Sequences, FiniteSets, TLC

VARIABLES
    fsys,           \* the file system below process.cwd(): path -> node
    template,       \* the template tree (read-only): relative path -> node
    userAgent,      \* process.env.npm_config_user_agent (optional string)
    pc,             \* position of the running call
    caller,         \* who called runInstall: "scaffold" or "direct"
    opts,           \* the options object of the running call
    fileIdx,        \* index of the for-loop over filesToProcess
    packageManager, \* runInstall's local: the resolved package manager
    command,        \* runInstall's local: [command, args]
    error,          \* the error execa rejected with (optional)
    result,         \* the InstallResult runInstall resolved to (optional)
    thrown,         \* the error the call rejected with (optional)
    effects,        \* write/spawn effects of the running call, in order
    console,        \* lines the running call printed, in order
    calls,          \* number of calls made so far (also the clock)
    iopts,          \* the options object runInstall was called with
    before,         \* the file system as it was when the running call began
    processCwd,     \* process.cwd(), as a path of fsys
    argv,           \* the parsed command line, when the CLI made the call
    exitCode,       \* the exit status of the CLI process (optional)
    parked          \* the locals of a second scaffold call, while the first runs

vars == <<fsys, template, userAgent, pc, caller, opts, fileIdx, packageManager,
          command, error, result, thrown, effects, console, calls, iopts, before,
          processCwd, argv, exitCode, parked>>

-----------------------------------------------------------------------------
(* Optional values: undefined, or a value.                                 *)

None == [some |-> FALSE, v |-> ""]

Some(s) == [some |-> TRUE, v |-> s]

\* JavaScript truthiness of an optional string: undefined and "" are falsy.
Truthy(o) == o.some /\ o.v # ""

-----------------------------------------------------------------------------
(* Strings.                                                                *)

\* String.prototype.includes
Includes(s, sub) ==
    \E i \in 1..(Len(s) - Len(sub) + 1) : SubSeq(s, i, i + Len(sub) - 1) = sub

\* String.prototype.indexOf from a 1-based position; 0 when there is no match.
IndexOf(s, sub, from) ==
    LET hits == {i \in from..(Len(s) - Len(sub) + 1) :
                    SubSeq(s, i, i + Len(sub) - 1) = sub}
    IN  IF hits = {} THEN 0 ELSE CHOOSE i \in hits : \A j \in hits : i <= j

\* ECMAScript GetSubstitution for a string pattern (no capture groups): in the
\* replacement text "$$" is "$", "$&" the match and "$'" the text after the
\* match; every other character stands for itself. (The fourth pattern, "$"
\* before a grave accent, is the text before the match; no value drawn here
\* holds a grave accent.)
RECURSIVE GetSubstitution(_, _, _, _)
GetSubstitution(matched, str, position, replacement) ==
    IF replacement = "" THEN ""
    ELSE LET two == SubSeq(replacement, 1, 2)
             rest2 == SubSeq(replacement, 3, Len(replacement))
         IN  IF Len(replacement) >= 2 /\ two = "$$"
                 THEN "$" \o GetSubstitution(matched, str, position, rest2)
             ELSE IF Len(replacement) >= 2 /\ two = "$&"
                 THEN matched \o GetSubstitution(matched, str, position, rest2)
             ELSE IF Len(replacement) >= 2 /\ two = "$'"
                 THEN SubSeq(str, position + Len(matched), Len(str))
                      \o GetSubstitution(matched, str, position, rest2)
             ELSE SubSeq(replacement, 1, 1)
                  \o GetSubstitution(matched, str, position,
                                     SubSeq(replacement, 2, Len(replacement)))

RECURSIVE ReplaceFrom(_, _, _, _)
ReplaceFrom(s, key, value, pos) ==
    LET i == IndexOf(s, key, pos)
    IN  IF i = 0 THEN SubSeq(s, pos, Len(s))
        ELSE SubSeq(s, pos, i - 1)
             \o GetSubstitution(key, s, i, value)
             \o ReplaceFrom(s, key, value, i + Len(key))

\* String.prototype.replaceAll with a (non-empty) string pattern: the
\* non-overlapping matches of the original text, left to right.
ReplaceAll(s, key, value) == ReplaceFrom(s, key, value, 1)

RECURSIVE JoinWith(_, _)
\* Array.prototype.join
JoinWith(xs, sep) ==
    IF xs = <<>> THEN ""
    ELSE IF Len(xs) = 1 THEN Head(xs)
    ELSE Head(xs) \o sep \o JoinWith(Tail(xs), sep)

-----------------------------------------------------------------------------
(* The file system.                                                        *)

Dir == [kind |-> "dir", content |-> ""]

File(c) == [kind |-> "file", content |-> c]

pathExists_DirsOnly(f, p) == p \in DOMAIN f /\ f[p].kind = "dir"

\* fs.pathExists / fs.existsSync
pathExists(f, p) == p \in DOMAIN f

\* path.basename
basename(p) == p[Len(p)]

\* path.join(cwd, name)
join(p, q) == p \o q

-----------------------------------------------------------------------------
(* install: detectPackageManager and getInstallCommand.                    *)

detectPackageManager_NoExplicit(f, cwd, explicit, ua) ==
    IF Truthy(ua) /\ Includes(ua.v, "yarn") THEN "yarn"
    ELSE IF Truthy(ua) /\ Includes(ua.v, "pnpm") THEN "pnpm"
    ELSE IF Truthy(ua) /\ Includes(ua.v, "npm") THEN "npm"
    ELSE IF pathExists(f, join(cwd, <<"pnpm-lock.yaml">>)) THEN "pnpm"
    ELSE IF pathExists(f, join(cwd, <<"yarn.lock">>)) THEN "yarn"
    ELSE IF pathExists(f, join(cwd, <<"package-lock.json">>)) THEN "npm"
    ELSE "npm"

detectPackageManager_LockFirst(f, cwd, explicit, ua) ==
    IF Truthy(explicit) THEN explicit.v
    ELSE IF pathExists(f, join(cwd, <<"pnpm-lock.yaml">>)) THEN "pnpm"
    ELSE IF pathExists(f, join(cwd, <<"yarn.lock">>)) THEN "yarn"
    ELSE IF pathExists(f, join(cwd, <<"package-lock.json">>)) THEN "npm"
    ELSE IF Truthy(ua) /\ Includes(ua.v, "yarn") THEN "yarn"
    ELSE IF Truthy(ua) /\ Includes(ua.v, "pnpm") THEN "pnpm"
    ELSE "npm"

detectPackageManager_YarnLockFirst(f, cwd, explicit, ua) ==
    IF Truthy(explicit) THEN explicit.v
    ELSE IF Truthy(ua) /\ Includes(ua.v, "yarn") THEN "yarn"
    ELSE IF Truthy(ua) /\ Includes(ua.v, "pnpm") THEN "pnpm"
    ELSE IF Truthy(ua) /\ Includes(ua.v, "npm") THEN "npm"
    ELSE IF pathExists(f, join(cwd, <<"yarn.lock">>)) THEN "yarn"
    ELSE IF pathExists(f, join(cwd, <<"pnpm-lock.yaml">>)) THEN "pnpm"
    ELSE IF pathExists(f, join(cwd, <<"package-lock.json">>)) THEN "npm"
    ELSE "npm"

detectPackageManager_PnpmFirst(f, cwd, explicit, ua) ==
    IF Truthy(explicit) THEN explicit.v
    ELSE IF Truthy(ua) /\ Includes(ua.v, "pnpm") THEN "pnpm"
    ELSE IF Truthy(ua) /\ Includes(ua.v, "yarn") THEN "yarn"
    ELSE IF Truthy(ua) /\ Includes(ua.v, "npm") THEN "npm"
    ELSE IF pathExists(f, join(cwd, <<"pnpm-lock.yaml">>)) THEN "pnpm"
    ELSE IF pathExists(f, join(cwd, <<"yarn.lock">>)) THEN "yarn"
    ELSE IF pathExists(f, join(cwd, <<"package-lock.json">>)) THEN "npm"
    ELSE "npm"

\* detectPackageManager(cwd, packageManager) reading the environment variable
\* ua and the file system f.
detectPackageManager(f, cwd, explicit, ua) ==
    IF Truthy(explicit) THEN explicit.v
    ELSE IF Truthy(ua) /\ Includes(ua.v, "yarn") THEN "yarn"
    ELSE IF Truthy(ua) /\ Includes(ua.v, "pnpm") THEN "pnpm"
    ELSE IF Truthy(ua) /\ Includes(ua.v, "npm") THEN "npm"
    ELSE IF pathExists(f, join(cwd, <<"pnpm-lock.yaml">>)) THEN "pnpm"
    ELSE IF pathExists(f, join(cwd, <<"yarn.lock">>)) THEN "yarn"
    ELSE IF pathExists(f, join(cwd, <<"package-lock.json">>)) THEN "npm"
    ELSE "npm"

getInstallCommand_YarnPlain(pm) ==
    IF pm = "npm" THEN <<"npm", <<"install", "--no-audit", "--no-fund">>>>
    ELSE IF pm = "yarn" THEN <<"yarn", <<"install">>>>
    ELSE IF pm = "pnpm" THEN <<"pnpm", <<"install", "--no-frozen-lockfile">>>>
    ELSE <<"npm", <<"install", "--no-audit", "--no-fund">>>>

getInstallCommand(pm) ==
    IF pm = "npm" THEN <<"npm", <<"install", "--no-audit", "--no-fund">>>>
    ELSE IF pm = "yarn" THEN <<"yarn", <<"install", "--non-interactive">>>>
    ELSE IF pm = "pnpm" THEN <<"pnpm", <<"install", "--no-frozen-lockfile">>>>
    ELSE <<"npm", <<"install", "--no-audit", "--no-fund">>>>

-----------------------------------------------------------------------------
(* scaffold: the copy.                                                     *)

\* The filter option of fs.copy: the base name of the source path decides.
filter_GitOnly(name) == name # ".git"

filter(name) == name # ".git" /\ name # "node_modules"

\* path.resolve(process.cwd(), appName)
targetDir(o) == join(processCwd, <<o.appName>>)

\* The entries of directory rel in tree t (fs.readdir).
children(t, rel) ==
    {p \in DOMAIN t : Len(p) = Len(rel) + 1 /\ SubSeq(p, 1, Len(rel)) = rel}

\* The relative paths fs.copy visits and copies from directory rel of tree t:
\* the directory itself, every child the filter lets through and, for a
\* child directory, what the copy of that directory visits.
RECURSIVE copyDir(_, _)
copyDir(t, rel) ==
    {rel} \cup UNION {
        IF ~filter(basename(c)) THEN {}
        ELSE IF t[c].kind = "dir" THEN copyDir(t, c)
        ELSE {c} : c \in children(t, rel)}

\* The file system after the paths in written were copied from tree t to dest
\* (fs.copy overwrites what is there).
copyInto(f, t, dest, written) ==
    [p \in DOMAIN f \cup {dest \o r : r \in written} |->
        IF \E r \in written : p = dest \o r
            THEN t[SubSeq(p, Len(dest) + 1, Len(p))]
            ELSE f[p]]

-----------------------------------------------------------------------------
(* scaffold: the substitution.                                             *)

RECURSIVE JsonEscape(_)
JsonEscape(s) ==
    IF s = "" THEN ""
    ELSE LET c == SubSeq(s, 1, 1)
         IN  (IF c = "\"" \/ c = "\\" THEN "\\" \o c ELSE c)
             \o JsonEscape(SubSeq(s, 2, Len(s)))

RECURSIVE JsonItems(_)
JsonItems(ws) ==
    IF ws = <<>> THEN ""
    ELSE "\"" \o JsonEscape(Head(ws)) \o "\""
         \o (IF Len(ws) > 1 THEN "," ELSE "") \o JsonItems(Tail(ws))

\* JSON.stringify of an array of strings
JsonStringify(ws) == "[" \o JsonItems(ws) \o "]"

config_NetworkFromSoroban(o) ==
    << <<"{{APP_NAME}}", o.appName>>,
       <<"{{HORIZON_URL}}", IF Truthy(o.horizonUrl) THEN o.horizonUrl.v
                            ELSE "https://horizon-testnet.stellar.org">>,
       <<"{{SOROBAN_URL}}", IF Truthy(o.sorobanUrl) THEN o.sorobanUrl.v
                            ELSE "https://soroban-testnet.stellar.org">>,
       <<"{{NETWORK}}", IF Truthy(o.sorobanUrl) /\ Includes(o.sorobanUrl.v, "public")
                        THEN "PUBLIC" ELSE "TESTNET">>,
       <<"{{WALLETS}}", IF o.wallets.some /\ Len(o.wallets.v) > 0
                        THEN JsonStringify(o.wallets.v)
                        ELSE JsonStringify(<<"freighter", "albedo", "lobstr">>)>> >>

config_EmptyWalletsKept(o) ==
    << <<"{{APP_NAME}}", o.appName>>,
       <<"{{HORIZON_URL}}", IF Truthy(o.horizonUrl) THEN o.horizonUrl.v
                            ELSE "https://horizon-testnet.stellar.org">>,
       <<"{{SOROBAN_URL}}", IF Truthy(o.sorobanUrl) THEN o.sorobanUrl.v
                            ELSE "https://soroban-testnet.stellar.org">>,
       <<"{{NETWORK}}", IF Truthy(o.horizonUrl) /\ Includes(o.horizonUrl.v, "public")
                        THEN "PUBLIC" ELSE "TESTNET">>,
       <<"{{WALLETS}}", IF o.wallets.some
                        THEN JsonStringify(o.wallets.v)
                        ELSE JsonStringify(<<"freighter", "albedo", "lobstr">>)>> >>

config_AppNameFromPath(o) ==
    << <<"{{APP_NAME}}", JoinWith(targetDir(o), "/")>>,
       <<"{{HORIZON_URL}}", IF Truthy(o.horizonUrl) THEN o.horizonUrl.v
                            ELSE "https://horizon-testnet.stellar.org">>,
       <<"{{SOROBAN_URL}}", IF Truthy(o.sorobanUrl) THEN o.sorobanUrl.v
                            ELSE "https://soroban-testnet.stellar.org">>,
       <<"{{NETWORK}}", IF Truthy(o.horizonUrl) /\ Includes(o.horizonUrl.v, "public")
                        THEN "PUBLIC" ELSE "TESTNET">>,
       <<"{{WALLETS}}", IF o.wallets.some /\ Len(o.wallets.v) > 0
                        THEN JsonStringify(o.wallets.v)
                        ELSE JsonStringify(<<"freighter", "albedo", "lobstr">>)>> >>

config_UnknownKey(o) ==
    << <<"{{APP_NAME}}", o.appName>>,
       <<"{{HORIZON_URL}}", IF Truthy(o.horizonUrl) THEN o.horizonUrl.v
                            ELSE "https://horizon-testnet.stellar.org">>,
       <<"{{SOROBAN_URL}}", IF Truthy(o.sorobanUrl) THEN o.sorobanUrl.v
                            ELSE "https://soroban-testnet.stellar.org">>,
       <<"{{NETWORK}}", IF Truthy(o.horizonUrl) /\ Includes(o.horizonUrl.v, "public")
                        THEN "PUBLIC" ELSE "TESTNET">>,
       <<"{{WALLETS}}", IF o.wallets.some /\ Len(o.wallets.v) > 0
                        THEN JsonStringify(o.wallets.v)
                        ELSE JsonStringify(<<"freighter", "albedo", "lobstr">>)>>,
       <<"{{app_name}}", o.appName>>,
       <<"{{OTHER}}", "">> >>

\* The config object of scaffold, as Object.entries lists it.
config(o) ==
    << <<"{{APP_NAME}}", o.appName>>,
       <<"{{HORIZON_URL}}", IF Truthy(o.horizonUrl) THEN o.horizonUrl.v
                            ELSE "https://horizon-testnet.stellar.org">>,
       <<"{{SOROBAN_URL}}", IF Truthy(o.sorobanUrl) THEN o.sorobanUrl.v
                            ELSE "https://soroban-testnet.stellar.org">>,
       <<"{{NETWORK}}", IF Truthy(o.horizonUrl) /\ Includes(o.horizonUrl.v, "public")
                        THEN "PUBLIC" ELSE "TESTNET">>,
       <<"{{WALLETS}}", IF o.wallets.some /\ Len(o.wallets.v) > 0
                        THEN JsonStringify(o.wallets.v)
                        ELSE JsonStringify(<<"freighter", "albedo", "lobstr">>)>> >>

RECURSIVE replaceEntries(_, _)
replaceEntries(content, replacements) ==
    IF replacements = <<>> THEN content
    ELSE replaceEntries(
            ReplaceAll(content, Head(replacements)[1], Head(replacements)[2]),
            Tail(replacements))

replaceInFile_FirstKeyOnly(content, replacements) ==
    ReplaceAll(content, Head(replacements)[1], Head(replacements)[2])

\* The new content replaceInFile writes: one replaceAll per entry, in order.
replaceInFile(content, replacements) == replaceEntries(content, replacements)

filesToProcess_WithReadme ==
    << <<"package.json">>,
       <<"src", "contexts", "WalletProvider.tsx">>,
       <<"src", "lib", "stellar-wallet-kit.ts">>,
       <<"README.md">> >>

\* filesToProcess, relative to targetDir
filesToProcess ==
    << <<"package.json">>,
       <<"src", "contexts", "WalletProvider.tsx">>,
       <<"src", "lib", "stellar-wallet-kit.ts">>,
       <<"src", "hooks", "useSorobanContract.ts">> >>

-----------------------------------------------------------------------------
(* install: runInstall and saveInstallLog.                                 *)

NoPath == [some |-> FALSE, v |-> <<>>]

SomePath(p) == [some |-> TRUE, v |-> p]

NoResult ==
    [set |-> FALSE, success |-> FALSE, packageManager |-> "",
     error |-> None, logPath |-> NoPath]

NoError == [set |-> FALSE, kind |-> "", message |-> "", stack |-> "",
            stdout |-> "", stderr |-> ""]

NoCommand == <<"", <<>>>>

\* A path as the string the program prints.
PathStr(p) == JoinWith(p, "/")

\* The timeout default of runInstall's destructuring: 20 * 60 * 1000.
DefaultTimeout == 1200000

timeoutOf_NoDefault(io) == IF io.timeout.some THEN io.timeout.v ELSE 0

timeoutOf(io) == IF io.timeout.some THEN io.timeout.v ELSE DefaultTimeout

\* The error execa rejects with, by what happened to the child: a non-zero
\* exit, the timeout killing it, or the spawn failing.
ExecaError(kind, cmd, io) ==
    LET line == cmd[1] \o " " \o JoinWith(cmd[2], " ")
        msg == IF kind = "exit" THEN "Command failed with exit code 1: " \o line
               ELSE IF kind = "timeout"
                   THEN "Command timed out after " \o ToString(timeoutOf(io))
                        \o " milliseconds: " \o line
               ELSE "Command failed with ENOENT: " \o line
    IN  [set |-> TRUE, kind |-> kind, message |-> msg,
         stack |-> "Error: " \o msg,
         stdout |-> "",
         stderr |-> IF io.captureOutput /\ kind = "exit" THEN "ERR!" ELSE ""]

\* x || fallback, on strings
OrElse(x, fallback) == IF x # "" THEN x ELSE fallback

\* logContent of saveInstallLog
logContent(cwd, err, pm, now) ==
    JoinWith(<< "Nextellar Installation Error Log",
                "Timestamp: " \o ToString(now),
                "Package Manager: " \o pm,
                "Working Directory: " \o PathStr(cwd),
                "",
                "Error Details:",
                OrElse(err.message, "Unknown error"),
                "",
                "Stack Trace:",
                OrElse(err.stack, "No stack trace available"),
                "",
                "Stdout:",
                OrElse(err.stdout, "No stdout captured"),
                "",
                "Stderr:",
                OrElse(err.stderr, "No stderr captured") >>, "\n")

nextellarDir_ProjectRoot(cwd) == cwd

nextellarDir(cwd) == join(cwd, <<".nextellar">>)

logPathOf(cwd) == join(nextellarDir(cwd), <<"install.log">>)

\* The non-empty prefixes of path p: the directories fs.ensureDir makes sure of.
Prefixes(p) == {SubSeq(p, 1, n) : n \in 1..Len(p)}

\* fs.ensureDir can succeed only when no prefix of the path is a file.
canEnsureDir(f, p) == \A q \in Prefixes(p) : q \in DOMAIN f => f[q].kind = "dir"

ensureDir(f, p) ==
    [q \in DOMAIN f \cup Prefixes(p) |-> IF q \in DOMAIN f THEN f[q] ELSE Dir]

\* fs.writeFile can succeed only into an existing directory and not onto one.
canWriteFile(f, p) ==
    /\ Len(p) > 1 => (SubSeq(p, 1, Len(p) - 1) \in DOMAIN f
                      /\ f[SubSeq(p, 1, Len(p) - 1)].kind = "dir")
    /\ p \in DOMAIN f => f[p].kind = "file"

writeFile_Append(f, p, c) ==
    [q \in DOMAIN f \cup {p} |->
        IF q = p THEN File((IF p \in DOMAIN f THEN f[p].content ELSE "") \o c) ELSE f[q]]

writeFile(f, p, c) == [q \in DOMAIN f \cup {p} |-> IF q = p THEN File(c) ELSE f[q]]

Effect(op, p, arg) == [op |-> op, path |-> p, arg |-> arg]

-----------------------------------------------------------------------------
(* Bounds and input sets.                                                  *)

\* Calls (of scaffold or runInstall) in one behaviour.
MaxCalls == 2

\* A tree from its entries <<path, node>>.
Tree(entries) ==
    [p \in {e[1] : e \in entries} |-> (CHOOSE e \in entries : e[1] = p)[2]]

\* A template like the repository's ts-template, with a checkout's .git and
\* node_modules directories (one of them nested) and no contract hook file.
TemplateA ==
    Tree({ <<<<>>, Dir>>,
           <<<<".git">>, Dir>>,
           <<<<".git", "config">>, File("[core]")>>,
           <<<<"node_modules">>, Dir>>,
           <<<<"node_modules", "x.js">>, File("x")>>,
           <<<<"package.json">>, File("{\"name\":\"{{APP_NAME}}\"}")>>,
           <<<<"README.md">>, File("# {{APP_NAME}}")>>,
           <<<<"src">>, Dir>>,
           <<<<"src", "lib">>, Dir>>,
           <<<<"src", "lib", "stellar-wallet-kit.ts">>,
             File("w={{WALLETS}};n='{{NETWORK}}'")>>,
           <<<<"src", "contexts">>, Dir>>,
           <<<<"src", "contexts", "WalletProvider.tsx">>,
             File("{{HORIZON_URL}} {{SOROBAN_URL}} {{HORIZON_URL}}")>>,
           <<<<"src", "node_modules">>, Dir>>,
           <<<<"src", "node_modules", "y.js">>, File("y")>> })

\* A variant with the contract hook file, a lock file, an unknown token, a
\* .git file below src and names that only resemble the excluded ones.
TemplateB ==
    Tree({ <<<<>>, Dir>>,
           <<<<"package.json">>, File("{{APP_NAME}}{{OTHER}}{{APP_NAME}}")>>,
           <<<<"yarn.lock">>, File("")>>,
           <<<<"git">>, Dir>>,
           <<<<"git", "node_modules.txt">>, File("{{NETWORK}}")>>,
           <<<<"src">>, Dir>>,
           <<<<"src", ".git">>, File("gitdir: x")>>,
           <<<<"src", "hooks">>, Dir>>,
           <<<<"src", "hooks", "useSorobanContract.ts">>,
             File("{{NETWORK}}{{WALLETS}}")>> })

Templates == {TemplateA, TemplateB}

UserAgents == {None, Some("pnpm/8.6.0 npm/? node/v18")}

\* What process.cwd() holds before the first call: nothing, or an entry named
\* like a project (a file, an empty directory, a directory with a lock file).
InitialFs ==
    { Tree({ <<<<>>, Dir>> }),
      Tree({ <<<<>>, Dir>>, <<<<"demo">>, File("")>> }),
      Tree({ <<<<>>, Dir>>, <<<<"app2">>, Dir>> }),
      Tree({ <<<<>>, Dir>>, <<<<"demo">>, Dir>>,
             <<<<"demo", "pnpm-lock.yaml">>, File("")>> }) }

AppNames == {"demo", "app2"}

Requests ==
    [appName : AppNames, useTs : BOOLEAN,
     horizonUrl : {None, Some("https://horizon.public.org")},
     sorobanUrl : {None},
     wallets : {Some(<<>>)},
     skipInstall : BOOLEAN,
     packageManager : {None, Some("yarn")},
     installTimeout : {None}]

InstallRequests ==
    [cwd : {<<"demo">>, <<"nowhere">>},
     packageManager : {None, Some("pnpm"), Some("bun")},
     timeout : {None, Some(1000)},
     skipInstall : BOOLEAN,
     captureOutput : BOOLEAN]

NoOpts ==
    [appName |-> "", useTs |-> FALSE, horizonUrl |-> None, sorobanUrl |-> None,
     wallets |-> Some(<<>>), skipInstall |-> FALSE, packageManager |-> None,
     installTimeout |-> None]

NoIopts ==
    [cwd |-> <<>>, packageManager |-> None, timeout |-> None,
     skipInstall |-> FALSE, captureOutput |-> FALSE]

\* The command line as commander parsed it; set is FALSE when the running
\* call was not made by the CLI.
NoArgv ==
    [set |-> FALSE, projectName |-> "", typescript |-> TRUE, javascript |-> FALSE,
     horizonUrl |-> None, sorobanUrl |-> None, wallets |-> "", skipInstall |-> FALSE,
     packageManager |-> None, installTimeout |-> "1200000"]

NoExit == [some |-> FALSE, v |-> 0]

\* The locals of a call that has not begun.
NoParked ==
    [pc |-> "idle", caller |-> "scaffold", opts |-> NoOpts, iopts |-> NoIopts,
     fileIdx |-> 1, packageManager |-> "", command |-> NoCommand, error |-> NoError,
     result |-> NoResult, thrown |-> None, effects |-> <<>>, console |-> <<>>,
     before |-> <<>> :> Dir]

-----------------------------------------------------------------------------
(* The calls, step by step (one step per awaited operation).               *)

Idle == {"idle", "resolved", "rejected", "returned"}

\* Where a finished runInstall leaves its caller: scaffold has nothing left to
\* do after the awaited runInstall and resolves.
Done == IF caller = "scaffold" THEN "resolved" ELSE "returned"

\* The body of scaffold(o) up to its first await: the variant check.
scaffoldEntry(o, From) ==
    /\ pc \in From
    /\ calls < MaxCalls
    /\ calls' = calls + 1
    /\ caller' = "scaffold"
    /\ opts' = o
    /\ iopts' = NoIopts
    /\ fileIdx' = 1
    /\ packageManager' = ""
    /\ command' = NoCommand
    /\ error' = NoError
    /\ result' = NoResult
    /\ effects' = <<>>
    /\ console' = <<>>
    /\ IF ~o.useTs
          THEN /\ thrown' = Some("JavaScript support is coming soon! Please use TypeScript for now.")
               /\ pc' = "rejected"
          ELSE /\ thrown' = None
               /\ pc' = "pathExists"
    /\ before' = fsys
    /\ UNCHANGED <<fsys, template, userAgent, processCwd, parked>>

\* scaffold(options) is called as a library function.
Scaffold(Reqs, From) ==
    \E o \in Reqs :
        /\ scaffoldEntry(o, From)
        /\ argv' = NoArgv
        /\ exitCode' = NoExit

CheckTarget_Reserves ==
    /\ pc = "pathExists"
    /\ IF pathExists(fsys, targetDir(opts))
          THEN /\ thrown' = Some("Directory \"" \o opts.appName \o "\" already exists.")
               /\ pc' = "rejected"
               /\ fsys' = fsys
          ELSE /\ thrown' = thrown
               /\ pc' = "copy"
               /\ fsys' = ensureDir(fsys, targetDir(opts))
    /\ UNCHANGED <<processCwd, parked, argv, exitCode, template, userAgent, caller, opts, iopts,
                   fileIdx, packageManager, command, error, result, effects, console, calls,
                   before>>

\* await fs.pathExists(targetDir)
CheckTarget ==
    /\ pc = "pathExists"
    /\ IF pathExists(fsys, targetDir(opts))
          THEN /\ thrown' = Some("Directory \"" \o opts.appName \o "\" already exists.")
               /\ pc' = "rejected"
          ELSE /\ thrown' = thrown
               /\ pc' = "copy"
    /\ UNCHANGED <<processCwd, parked, argv, exitCode, fsys, template, userAgent, caller, opts, iopts, fileIdx,
                   packageManager, command, error, result, effects, console, calls, before>>

\* The base name of templateDir, which the filter sees first.
templateDirName == "ts-template"

\* What fs.copy(templateDir, targetDir, {filter}) copies.
copied(t) == IF filter(templateDirName) THEN copyDir(t, <<>>) ELSE {}

\* await fs.copy(...) completes.
Copy ==
    /\ pc = "copy"
    /\ fsys' = copyInto(fsys, template, targetDir(opts), copied(template))
    /\ effects' = Append(effects, Effect("copy", targetDir(opts), ""))
    /\ console' = console \o <<"Resource configuration:", "Injecting configuration...">>
    /\ pc' = "replace"
    /\ UNCHANGED <<processCwd, parked, argv, exitCode, template, userAgent, caller, opts, iopts, fileIdx,
                   packageManager, command, error, result, thrown, calls, before>>

IsPrefix(p, q) == Len(p) <= Len(q) /\ SubSeq(q, 1, Len(p)) = p

scaffoldCatches_Yes == TRUE

\* scaffold has no try/catch around fs.copy or the rewrite loop: an error of
\* either rejects the call.
scaffoldCatches == FALSE

\* await fs.copy(...) fails at entry e with a file system error: e's ancestors
\* are written, and of the rest either nothing or everything outside e.
CopyFails ==
    /\ pc = "copy"
    /\ \E e \in {p \in copied(template) : template[p].kind = "file"}, all \in BOOLEAN :
          LET written == {p \in copied(template) :
                             /\ ~IsPrefix(e, p)
                             /\ all \/ IsPrefix(p, e)}
          IN  /\ fsys' = copyInto(fsys, template, targetDir(opts), written)
              /\ effects' = Append(effects, Effect("copy", targetDir(opts), "failed"))
    /\ IF scaffoldCatches
          THEN /\ thrown' = thrown
               /\ console' = console \o <<"Resource configuration:", "Injecting configuration...">>
               /\ pc' = "replace"
          ELSE /\ thrown' = Some("EACCES: permission denied")
               /\ console' = console
               /\ pc' = "rejected"
    /\ UNCHANGED <<processCwd, parked, argv, exitCode, template, userAgent, caller, opts, iopts, fileIdx,
                   packageManager, command, error, result, calls, before>>

\* The loop over filesToProcess moves on; after the last file scaffold prints
\* its progress line and calls runInstall.
NextFile ==
    IF fileIdx = Len(filesToProcess)
        THEN /\ fileIdx' = fileIdx
             /\ console' = Append(console, "Scaffolded \"" \o opts.appName \o "\" from template.")
             /\ pc' = "install"
        ELSE /\ fileIdx' = fileIdx + 1
             /\ console' = console
             /\ pc' = "replace"

\* One iteration of the loop: pathExists, then replaceInFile (read, replace,
\* write).
Replace ==
    /\ pc = "replace"
    /\ LET file == join(targetDir(opts), filesToProcess[fileIdx])
       IN  IF ~pathExists(fsys, file)
              THEN /\ NextFile
                   /\ UNCHANGED <<fsys, effects, thrown>>
           ELSE IF fsys[file].kind = "dir"
              THEN /\ thrown' = Some("EISDIR: illegal operation on a directory, read")
                   /\ pc' = "rejected"
                   /\ UNCHANGED <<fsys, effects, fileIdx, console>>
           ELSE /\ fsys' = writeFile(fsys, file,
                                     replaceInFile(fsys[file].content, config(opts)))
                /\ effects' = Append(effects, Effect("writeFile", file, ""))
                /\ NextFile
                /\ UNCHANGED thrown
    /\ UNCHANGED <<processCwd, parked, argv, exitCode, template, userAgent, caller, opts, iopts, packageManager,
                   command, error, result, calls, before>>

\* replaceInFile fails with a file system error: in readFile (nothing is
\* written) or in writeFile (the file is left as it was, or truncated).
ReplaceFails ==
    /\ pc = "replace"
    /\ LET file == join(targetDir(opts), filesToProcess[fileIdx])
       IN  /\ pathExists(fsys, file)
           /\ fsys[file].kind = "file"
           /\ \E how \in {"read", "write", "truncate"} :
                 /\ fsys' = IF how = "truncate" THEN writeFile(fsys, file, "") ELSE fsys
                 /\ effects' = IF how = "read" THEN effects
                               ELSE Append(effects, Effect("writeFile", file, how))
    /\ IF scaffoldCatches
          THEN /\ thrown' = thrown
               /\ NextFile
          ELSE /\ thrown' = Some("EIO: i/o error")
               /\ pc' = "rejected"
               /\ UNCHANGED <<fileIdx, console>>
    /\ UNCHANGED <<processCwd, parked, argv, exitCode, template, userAgent, caller, opts, iopts,
                   packageManager, command, error, result, calls, before>>

skips_UnlessExplicit(io) == io.skipInstall /\ ~Truthy(io.packageManager)

\* if (skipInstall), skipInstall defaulting to false
skips(io) == io.skipInstall

\* The body of runInstall up to its first await, for options io, entered with
\* the effects eff and the printed lines con: the skip check,
\* detectPackageManager, getInstallCommand, the progress line and the call of
\* execa.
runInstallEntry(io, eff, con) ==
    IF skips(io)
        THEN /\ result' = [set |-> TRUE, success |-> TRUE, packageManager |-> "skipped",
                           error |-> None, logPath |-> NoPath]
             /\ pc' = Done'
             /\ packageManager' = ""
             /\ command' = NoCommand
             /\ effects' = eff
             /\ console' = con
        ELSE LET pm == detectPackageManager(fsys, io.cwd, io.packageManager, userAgent)
                 cmd == getInstallCommand(pm)
             IN  /\ packageManager' = pm
                 /\ command' = cmd
                 /\ console' = Append(con, "Installing dependencies with " \o pm \o "...")
                 /\ effects' = Append(eff,
                                      Effect("spawn", io.cwd,
                                             cmd[1] \o " " \o JoinWith(cmd[2], " ")))
                 /\ result' = NoResult
                 /\ pc' = "spawned"

\* scaffold calls runInstall({cwd: targetDir, skipInstall, packageManager,
\* timeout: installTimeout}).
RunInstall ==
    /\ pc = "install"
    /\ iopts' = [cwd |-> targetDir(opts), packageManager |-> opts.packageManager,
                 timeout |-> opts.installTimeout, skipInstall |-> opts.skipInstall,
                 captureOutput |-> FALSE]
    /\ caller' = caller
    /\ runInstallEntry(iopts', effects, console)
    /\ UNCHANGED <<processCwd, parked, argv, exitCode, fsys, template, userAgent, opts, fileIdx, error, thrown, calls, before>>

\* runInstall(options) is called on its own.
RunInstallDirect(Reqs, From) ==
    \E io \in Reqs :
        /\ pc \in From
        /\ calls < MaxCalls
        /\ calls' = calls + 1
        /\ caller' = "direct"
        /\ opts' = NoOpts
        /\ iopts' = io
        /\ fileIdx' = 1
        /\ error' = NoError
        /\ thrown' = None
        /\ before' = fsys
        /\ runInstallEntry(io, <<>>, <<>>)
        /\ UNCHANGED <<processCwd, parked, argv, exitCode, fsys, template, userAgent>>

\* await execa(...) resolves: the child exited with status 0.
ChildSucceeds ==
    /\ pc = "spawned"
    /\ console' = Append(console, "Dependencies installed successfully with " \o packageManager)
    /\ result' = [set |-> TRUE, success |-> TRUE, packageManager |-> packageManager,
                  error |-> None, logPath |-> NoPath]
    /\ pc' = Done
    /\ UNCHANGED <<processCwd, parked, argv, exitCode, fsys, template, userAgent, caller, opts, iopts, fileIdx,
                   packageManager, command, error, thrown, effects, calls, before>>

ChildFailures == {"exit", "timeout", "spawn"}

\* await execa(...) rejects, by kind: the catch branch up to its await of
\* saveInstallLog. execa arms its timer only for a timeout above 0 (0 means
\* no timeout), so only then can the timeout kill the child.
ChildFailsWith(kind) ==
    /\ pc = "spawned"
    /\ kind = "timeout" => timeoutOf(iopts) > 0
    /\ error' = ExecaError(kind, command, iopts)
    /\ console' = Append(console, "Installation failed with " \o packageManager)
    /\ pc' = "saveLog"
    /\ UNCHANGED <<processCwd, parked, argv, exitCode, fsys, template, userAgent, caller, opts, iopts, fileIdx,
                   packageManager, command, result, thrown, effects, calls, before>>

ChildFails == \E kind \in ChildFailures : ChildFailsWith(kind)

\* The timer of execa's timeout option fires and the child is killed.
TimesOut == ChildFailsWith("timeout")

errorMessage_Generic(err) == "Installation failed"

\* error.message || 'Installation failed'
errorMessage(err) == OrElse(err.message, "Installation failed")

\* path.relative(from, to), for a path to below from
relative(from, to) ==
    IF IsPrefix(from, to) THEN SubSeq(to, Len(from) + 1, Len(to)) ELSE to

remediationLines_NpmInstall(cwd, cmd) ==
    << "To resolve this issue:",
       "   cd " \o basename(cwd),
       "   npm install" >>

remediationLines_HeadlineOnly(cwd, cmd) == << "To resolve this issue:" >>

\* The remediation lines of runInstall's catch: a cd into the project and the
\* command and arguments that were spawned.
remediationLines(cwd, cmd) ==
    << "To resolve this issue:",
       "   cd " \o basename(cwd),
       "   " \o cmd[1] \o " " \o JoinWith(cmd[2], " ") >>

\* The rest of runInstall's catch branch, once saveInstallLog returned
\* logPath: the remediation lines and the returned InstallResult.
Remediate(logPath, warned) ==
    /\ console' = console
                    \o (IF warned THEN <<"Could not save error log:">> ELSE <<>>)
                    \o remediationLines(iopts.cwd, command)
                    \o (IF logPath.some
                           THEN <<"Full error log saved to: "
                                    \o PathStr(relative(processCwd, logPath.v))>>
                           ELSE <<>>)
    /\ result' = [set |-> TRUE, success |-> FALSE, packageManager |-> packageManager,
                  error |-> Some(errorMessage(error)), logPath |-> logPath]
    /\ pc' = Done

\* saveInstallLog writes the log and returns its path.
SaveInstallLog ==
    /\ pc = "saveLog"
    /\ canEnsureDir(fsys, nextellarDir(iopts.cwd))
    /\ canWriteFile(ensureDir(fsys, nextellarDir(iopts.cwd)), logPathOf(iopts.cwd))
    /\ fsys' = writeFile(ensureDir(fsys, nextellarDir(iopts.cwd)), logPathOf(iopts.cwd),
                         logContent(iopts.cwd, error, packageManager, calls))
    /\ effects' = effects \o << Effect("ensureDir", nextellarDir(iopts.cwd), ""),
                                Effect("writeFile", logPathOf(iopts.cwd), "") >>
    /\ Remediate(SomePath(logPathOf(iopts.cwd)), FALSE)
    /\ UNCHANGED <<processCwd, parked, argv, exitCode, template, userAgent, caller, opts, iopts, fileIdx,
                   packageManager, command, error, thrown, calls, before>>

logPathOnFailure_Path(cwd) == SomePath(logPathOf(cwd))

\* What saveInstallLog's catch returns: undefined.
logPathOnFailure(cwd) == NoPath

saveInstallLogCatches_Not == FALSE

\* saveInstallLog wraps its body in try/catch; the catch warns and returns
\* undefined.
saveInstallLogCatches == TRUE

\* saveInstallLog fails in ensureDir, or in writeFile (which leaves the log as
\* it was, or truncated); its catch warns and it returns undefined.
SaveInstallLogFails ==
    /\ pc = "saveLog"
    /\ \E how \in {"ensureDir", "write", "truncate"} :
          LET made == ensureDir(fsys, nextellarDir(iopts.cwd))
          IN  IF how = "ensureDir" \/ ~canEnsureDir(fsys, nextellarDir(iopts.cwd))
                 THEN /\ fsys' = fsys
                      /\ effects' = Append(effects,
                                           Effect("ensureDir", nextellarDir(iopts.cwd), "failed"))
              ELSE IF how = "write" \/ ~canWriteFile(made, logPathOf(iopts.cwd))
                 THEN /\ fsys' = made
                      /\ effects' = effects
                            \o << Effect("ensureDir", nextellarDir(iopts.cwd), ""),
                                  Effect("writeFile", logPathOf(iopts.cwd), "failed") >>
              ELSE /\ fsys' = writeFile(made, logPathOf(iopts.cwd), "")
                   /\ effects' = effects
                         \o << Effect("ensureDir", nextellarDir(iopts.cwd), ""),
                               Effect("writeFile", logPathOf(iopts.cwd), "truncated") >>
    /\ IF saveInstallLogCatches
          THEN /\ Remediate(logPathOnFailure(iopts.cwd), TRUE)
               /\ thrown' = thrown
          ELSE /\ thrown' = Some("EACCES: permission denied, mkdir")
               /\ pc' = "rejected"
               /\ UNCHANGED <<console, result>>
    /\ UNCHANGED <<processCwd, parked, argv, exitCode, template, userAgent, caller, opts, iopts, fileIdx,
                   packageManager, command, error, calls, before>>

-----------------------------------------------------------------------------
(* The pipeline: calls of scaffold and of runInstall, one after another.   *)

Init ==
    /\ fsys \in InitialFs
    /\ template \in Templates
    /\ userAgent \in UserAgents
    /\ pc = "idle"
    /\ caller = "scaffold"
    /\ opts = NoOpts
    /\ iopts = NoIopts
    /\ fileIdx = 1
    /\ packageManager = ""
    /\ command = NoCommand
    /\ error = NoError
    /\ result = NoResult
    /\ thrown = None
    /\ effects = <<>>
    /\ console = <<>>
    /\ calls = 0
    /\ before = fsys
    /\ processCwd = <<>>
    /\ parked = NoParked
    /\ argv = NoArgv
    /\ exitCode = NoExit

Next ==
    \/ Scaffold(Requests, Idle)
    \/ CheckTarget
    \/ Copy
    \/ CopyFails
    \/ Replace
    \/ ReplaceFails
    \/ RunInstall
    \/ ChildSucceeds
    \/ ChildFails
    \/ SaveInstallLog
    \/ SaveInstallLogFails

Spec == Init /\ [][Next]_vars

-----------------------------------------------------------------------------
(* runInstall called on its own, again and again.                          *)

InstallFs ==
    { Tree({ <<<<>>, Dir>> }),
      Tree({ <<<<>>, Dir>>, <<<<"demo">>, Dir>>,
             <<<<"demo", "yarn.lock">>, File("")>> }),
      Tree({ <<<<>>, Dir>>, <<<<"demo">>, Dir>>,
             <<<<"demo", ".nextellar">>, File("")>> }) }

InitInstall ==
    /\ fsys \in InstallFs
    /\ template = Tree({ <<<<>>, Dir>> })
    /\ userAgent \in UserAgents
    /\ pc = "idle"
    /\ caller = "direct"
    /\ opts = NoOpts
    /\ iopts = NoIopts
    /\ fileIdx = 1
    /\ packageManager = ""
    /\ command = NoCommand
    /\ error = NoError
    /\ result = NoResult
    /\ thrown = None
    /\ effects = <<>>
    /\ console = <<>>
    /\ calls = 0
    /\ before = fsys
    /\ processCwd = <<>>
    /\ parked = NoParked
    /\ argv = NoArgv
    /\ exitCode = NoExit

NextInstall ==
    \/ RunInstallDirect(InstallRequests, Idle)
    \/ ChildSucceeds
    \/ ChildFails
    \/ SaveInstallLog
    \/ SaveInstallLogFails

SpecInstall == InitInstall /\ [][NextInstall]_vars

-----------------------------------------------------------------------------
(* One scaffold call into an empty directory, without file system errors,  *)
(* over a wide range of substitution values.                               *)

\* A template whose designated files hold every known token, a token twice,
\* an unknown token and text that only resembles a token.
TemplateC ==
    Tree({ <<<<>>, Dir>>,
           <<<<"package.json">>, File("{{APP_NAME}}{{app_name}}{APP_NAME}{{WALLETS}}")>>,
           <<<<"README.md">>, File("# {{APP_NAME}} {{NETWORK}}")>>,
           <<<<"src">>, Dir>>,
           <<<<"src", "lib">>, Dir>>,
           <<<<"src", "lib", "stellar-wallet-kit.ts">>,
             File("{{NETWORK}}{{SOROBAN_URL}}{{HORIZON_URL}}{{APP_NAME}}")>>,
           <<<<"src", "lib", "other.ts">>, File("{{HORIZON_URL}}")>> })

SubstTemplates == {TemplateA, TemplateB, TemplateC}

SubstRequests ==
    [appName : {"demo", "a$&b", "{{APP_NAME}}", "{{WALLETS}}"},
     useTs : {TRUE},
     horizonUrl : {None, Some(""), Some("https://horizon.public.org"),
                   Some("https://PUBLIC/{{APP_NAME}}")},
     sorobanUrl : {None, Some("https://soroban.public.org"), Some("{{HORIZON_URL}}")},
     wallets : {None, Some(<<>>), Some(<<"xbull">>), Some(<<"lobstr", "a\"b">>)},
     skipInstall : {TRUE},
     packageManager : {None},
     installTimeout : {None}]

InitSubst ==
    /\ fsys = Tree({ <<<<>>, Dir>> })
    /\ template \in SubstTemplates
    /\ userAgent = None
    /\ pc = "idle"
    /\ caller = "scaffold"
    /\ opts = NoOpts
    /\ iopts = NoIopts
    /\ fileIdx = 1
    /\ packageManager = ""
    /\ command = NoCommand
    /\ error = NoError
    /\ result = NoResult
    /\ thrown = None
    /\ effects = <<>>
    /\ console = <<>>
    /\ calls = 0
    /\ before = fsys
    /\ processCwd = <<>>
    /\ parked = NoParked
    /\ argv = NoArgv
    /\ exitCode = NoExit

NextSubst ==
    \/ Scaffold(SubstRequests, {"idle"})
    \/ CheckTarget
    \/ Copy
    \/ Replace
    \/ RunInstall

SpecSubst == InitSubst /\ [][NextSubst]_vars

-----------------------------------------------------------------------------
(* detectPackageManager and getInstallCommand applied to drawn inputs.     *)

LockFiles == {"pnpm-lock.yaml", "yarn.lock", "package-lock.json"}

\* A project directory x holding the lock files in locks.
FsWithLocks(locks) ==
    Tree({ <<<<>>, Dir>>, <<<<"x">>, Dir>> } \cup {<<<<"x", l>>, File("")>> : l \in locks})

DetectFs == {FsWithLocks(locks) : locks \in SUBSET LockFiles} \cup {Tree({ <<<<>>, Dir>> })}

DetectUserAgents ==
    { None, Some(""), Some("yarn/1.22.0"), Some("pnpm/6.0.0"),
      Some("npm/10.2.4 node/v20.11.0 linux x64"), Some("yarn pnpm npm"),
      Some("YARN/1.22.0"), Some("Pnpm"), Some("bun/1.0.0") }

ManagerNames == {"", "npm", "yarn", "pnpm", "bun", "NPM"}

ExplicitChoices == {None} \cup {Some(n) : n \in ManagerNames}

InitDetect ==
    /\ fsys \in DetectFs
    /\ template = Tree({ <<<<>>, Dir>> })
    /\ userAgent \in DetectUserAgents
    /\ pc = "pure"
    /\ caller = "direct"
    /\ opts = NoOpts
    /\ iopts \in [cwd : {<<"x">>}, packageManager : ExplicitChoices, timeout : {None},
                  skipInstall : {FALSE}, captureOutput : {FALSE}]
    /\ fileIdx = 1
    /\ packageManager \in ManagerNames
    /\ command = NoCommand
    /\ error = NoError
    /\ result = NoResult
    /\ thrown = None
    /\ effects = <<>>
    /\ console = <<>>
    /\ calls = 0
    /\ before = fsys
    /\ processCwd = <<>>
    /\ parked = NoParked
    /\ argv = NoArgv
    /\ exitCode = NoExit

\* detectPackageManager(iopts.cwd, iopts.packageManager) is applied.
ApplyDetect ==
    /\ pc = "pure"
    /\ packageManager' = detectPackageManager(fsys, iopts.cwd, iopts.packageManager, userAgent)
    /\ pc' = "detected"
    /\ UNCHANGED <<processCwd, parked, argv, exitCode, fsys, template, userAgent, caller, opts, iopts, fileIdx, command,
                   error, result, thrown, effects, console, calls, before>>

\* getInstallCommand is applied to the drawn or the detected manager.
ApplyGetInstallCommand ==
    /\ pc \in {"pure", "detected"}
    /\ command' = getInstallCommand(packageManager)
    /\ pc' = IF pc = "pure" THEN "commanded" ELSE "detectedCommanded"
    /\ UNCHANGED <<processCwd, parked, argv, exitCode, fsys, template, userAgent, caller, opts, iopts, fileIdx,
                   packageManager, error, result, thrown, effects, console, calls, before>>

NextDetect == ApplyDetect \/ ApplyGetInstallCommand

SpecDetect == InitDetect /\ [][NextDetect]_vars

-----------------------------------------------------------------------------
(* One runInstall call whose child may never exit on its own.              *)

TimeoutRequests ==
    [cwd : {<<"demo">>},
     packageManager : {None, Some("pnpm")},
     timeout : {None, Some(1000), Some(0)},
     skipInstall : BOOLEAN,
     captureOutput : {FALSE}]

NextTimeout ==
    \/ RunInstallDirect(TimeoutRequests, {"idle"})
    \/ ChildSucceeds
    \/ ChildFailsWith("exit")
    \/ ChildFailsWith("spawn")
    \/ TimesOut
    \/ SaveInstallLog
    \/ SaveInstallLogFails

\* The child is free never to exit; an armed timer fires, and the awaited
\* file system operations of saveInstallLog settle.
SpecTimeout ==
    /\ InitInstall
    /\ [][NextTimeout]_vars
    /\ WF_vars(TimesOut)
    /\ WF_vars(SaveInstallLog \/ SaveInstallLogFails)

-----------------------------------------------------------------------------
(* The same request, scaffolded from one working directory after another.  *)

WorkDirs == {<<"w1">>, <<"w2">>}

TwiceRequests ==
    [appName : {"demo"}, useTs : {TRUE},
     horizonUrl : {None, Some("https://horizon.public.org")},
     sorobanUrl : {None},
     wallets : {Some(<<>>), Some(<<"xbull">>)},
     skipInstall : BOOLEAN,
     packageManager : {None},
     installTimeout : {None}]

InitTwice ==
    /\ fsys = Tree({ <<<<>>, Dir>>, <<<<"w1">>, Dir>>, <<<<"w2">>, Dir>> })
    /\ template \in SubstTemplates
    /\ userAgent = None
    /\ pc = "idle"
    /\ caller = "scaffold"
    /\ opts = NoOpts
    /\ iopts = NoIopts
    /\ fileIdx = 1
    /\ packageManager = ""
    /\ command = NoCommand
    /\ error = NoError
    /\ result = NoResult
    /\ thrown = None
    /\ effects = <<>>
    /\ console = <<>>
    /\ calls = 0
    /\ before = fsys
    /\ processCwd = <<"w1">>
    /\ parked = NoParked
    /\ argv = NoArgv
    /\ exitCode = NoExit

\* The next call is made from another working directory.
Chdir(Dirs) ==
    /\ pc \in {"resolved", "rejected"}
    /\ \E d \in Dirs \ {processCwd} : processCwd' = d
    /\ pc' = "idle"
    /\ UNCHANGED <<parked, argv, exitCode, fsys, template, userAgent, caller, opts, iopts,
                   fileIdx, packageManager, command, error, result, thrown, effects,
                   console, calls, before>>

NextTwice ==
    \/ Scaffold(IF calls = 0 THEN TwiceRequests ELSE {opts}, {"idle"})
    \/ Chdir(WorkDirs)
    \/ CheckTarget
    \/ Copy
    \/ Replace
    \/ RunInstall
    \/ ChildSucceeds
    \/ ChildFails
    \/ SaveInstallLog

SpecTwice == InitTwice /\ [][NextTwice]_vars

-----------------------------------------------------------------------------
(* The CLI: program.action calls scaffold and the process exits.           *)

\* The value of a decimal digit character.
DigitValue(c) == CHOOSE d \in 0..9 : ToString(d) = c

IsDigit(c) == \E d \in 0..9 : ToString(d) = c

RECURSIVE parseDigits(_, _)
parseDigits(s, acc) ==
    IF s = "" \/ ~IsDigit(SubSeq(s, 1, 1)) THEN acc
    ELSE parseDigits(SubSeq(s, 2, Len(s)), acc * 10 + DigitValue(SubSeq(s, 1, 1)))

\* parseInt of a string that starts with a digit: its leading digits.
parseInt(s) == parseDigits(s, 0)

RECURSIVE split(_, _)
\* String.prototype.split with a one-character separator
split(s, sep) ==
    LET i == IndexOf(s, sep, 1)
    IN  IF i = 0 THEN <<s>>
        ELSE <<SubSeq(s, 1, i - 1)>> \o split(SubSeq(s, i + 1, Len(s)), sep)

useTsOf_IgnoresJavascript(a) == a.typescript

\* const useTs = options.typescript && !options.javascript
useTsOf(a) == a.typescript /\ ~a.javascript

\* The options object program.action hands to scaffold.
optionsOf(a) ==
    [appName |-> a.projectName,
     useTs |-> useTsOf(a),
     horizonUrl |-> a.horizonUrl,
     sorobanUrl |-> a.sorobanUrl,
     wallets |-> Some(IF a.wallets # "" THEN split(a.wallets, ",") ELSE <<>>),
     skipInstall |-> a.skipInstall,
     packageManager |-> a.packageManager,
     installTimeout |-> [some |-> TRUE, v |-> parseInt(a.installTimeout)]]

\* Command lines: --typescript defaults to true and can only be set to true.
CliArgs ==
    [set : {TRUE}, projectName : AppNames, typescript : {TRUE}, javascript : BOOLEAN,
     horizonUrl : {None}, sorobanUrl : {None}, wallets : {"", "freighter,xbull"},
     skipInstall : BOOLEAN, packageManager : {None}, installTimeout : {"5000"}]

\* A CLI process starts: program.action up to scaffold's first await.
Action(Args, From) ==
    \E a \in Args :
        /\ scaffoldEntry(optionsOf(a), From)
        /\ argv' = a
        /\ exitCode' = NoExit

\* The lines displaySuccess(appName) prints, on a terminal or not.
displaySuccess(appName, tty) ==
    IF ~tty
        THEN << "Nextellar scaffold complete!", "Next steps:",
                "  cd " \o appName, "  npm run dev" >>
        ELSE << "Project scaffolded successfully!", "  Next steps:",
                "  1. cd " \o appName, "  2. npm run dev",
                "  Deployment:", "  Check out nextellar.dev for more guides." >>

exitStatus_AlwaysZero(rejected) == IF rejected THEN 0 ELSE 0

\* The status the process exits with: process.exit(1) in the catch, 0 when
\* the action returns.
exitStatus(rejected) == IF rejected THEN 1 ELSE 0

\* scaffold resolved: the success lines, and the process ends.
ActionSucceeds ==
    /\ argv.set
    /\ pc = "resolved"
    /\ \E tty \in BOOLEAN :
          console' = console \o
              (IF argv.skipInstall
                  THEN << "Your Nextellar app is ready!", "   cd " \o argv.projectName,
                          "   npm install", "   npm run dev" >>
                  ELSE displaySuccess(argv.projectName, tty))
    /\ exitCode' = [some |-> TRUE, v |-> exitStatus(FALSE)]
    /\ pc' = "exited"
    /\ UNCHANGED <<processCwd, parked, argv, fsys, template, userAgent, caller, opts, iopts,
                   fileIdx, packageManager, command, error, result, thrown, effects,
                   calls, before>>

ActionCatches_Removes ==
    /\ argv.set
    /\ pc = "rejected"
    /\ console' = Append(console, "Error: " \o thrown.v)
    /\ exitCode' = [some |-> TRUE, v |-> exitStatus(TRUE)]
    /\ pc' = "exited"
    /\ fsys' = IF effects = <<>> THEN fsys
               ELSE [p \in {q \in DOMAIN fsys : ~IsPrefix(targetDir(opts), q)} |-> fsys[p]]
    /\ UNCHANGED <<processCwd, parked, argv, template, userAgent, caller, opts, iopts,
                   fileIdx, packageManager, command, error, result, thrown, effects,
                   calls, before>>

\* scaffold rejected: the catch prints the message and exits.
ActionCatches ==
    /\ argv.set
    /\ pc = "rejected"
    /\ console' = Append(console, "Error: " \o thrown.v)
    /\ exitCode' = [some |-> TRUE, v |-> exitStatus(TRUE)]
    /\ pc' = "exited"
    /\ UNCHANGED <<processCwd, parked, argv, fsys, template, userAgent, caller, opts, iopts,
                   fileIdx, packageManager, command, error, result, thrown, effects,
                   calls, before>>

NextCli ==
    \/ Action(CliArgs, {"idle", "exited"})
    \/ CheckTarget
    \/ Copy
    \/ CopyFails
    \/ Replace
    \/ ReplaceFails
    \/ RunInstall
    \/ ChildSucceeds
    \/ ChildFails
    \/ SaveInstallLog
    \/ SaveInstallLogFails
    \/ ActionSucceeds
    \/ ActionCatches

SpecCli == Init /\ [][NextCli]_vars

-----------------------------------------------------------------------------
(* Two scaffold calls in flight at once: each step of a call is one awaited *)
(* operation, and between two steps the other call may run.                *)

RaceRequests ==
    [appName : AppNames, useTs : {TRUE}, horizonUrl : {None}, sorobanUrl : {None},
     wallets : {None, Some(<<"xbull">>)}, skipInstall : {TRUE},
     packageManager : {None}, installTimeout : {None}]

InitRace ==
    /\ fsys = Tree({ <<<<>>, Dir>> })
    /\ template \in Templates
    /\ userAgent = None
    /\ pc = "idle"
    /\ caller = "scaffold"
    /\ opts = NoOpts
    /\ iopts = NoIopts
    /\ fileIdx = 1
    /\ packageManager = ""
    /\ command = NoCommand
    /\ error = NoError
    /\ result = NoResult
    /\ thrown = None
    /\ effects = <<>>
    /\ console = <<>>
    /\ calls = 0
    /\ before = fsys
    /\ processCwd = <<>>
    /\ parked = NoParked
    /\ argv = NoArgv
    /\ exitCode = NoExit

\* The call that was running is suspended at its await and the other call
\* goes on from where it was.
Switch ==
    /\ parked' = [pc |-> pc, caller |-> caller, opts |-> opts, iopts |-> iopts,
                  fileIdx |-> fileIdx, packageManager |-> packageManager,
                  command |-> command, error |-> error, result |-> result,
                  thrown |-> thrown, effects |-> effects, console |-> console,
                  before |-> before]
    /\ pc' = parked.pc
    /\ caller' = parked.caller
    /\ opts' = parked.opts
    /\ iopts' = parked.iopts
    /\ fileIdx' = parked.fileIdx
    /\ packageManager' = parked.packageManager
    /\ command' = parked.command
    /\ error' = parked.error
    /\ result' = parked.result
    /\ thrown' = parked.thrown
    /\ effects' = parked.effects
    /\ console' = parked.console
    /\ before' = parked.before
    /\ UNCHANGED <<fsys, template, userAgent, calls, processCwd, argv, exitCode>>

NextRace ==
    \/ Scaffold(RaceRequests, {"idle"})
    \/ CheckTarget
    \/ Copy
    \/ Replace
    \/ RunInstall
    \/ Switch

SpecRace == InitRace /\ [][NextRace]_vars

-----------------------------------------------------------------------------
(* The claims.                                                             *)

KnownTokens ==
    {"{{APP_NAME}}", "{{HORIZON_URL}}", "{{SOROBAN_URL}}", "{{NETWORK}}", "{{WALLETS}}"}

\* The four designated files, relative to the target directory.
Designated ==
    { <<"package.json">>,
      <<"src", "contexts", "WalletProvider.tsx">>,
      <<"src", "lib", "stellar-wallet-kit.ts">>,
      <<"src", "hooks", "useSorobanContract.ts">> }

ExistsMessage(o) == "Directory \"" \o o.appName \o "\" already exists."

VariantMessage == "JavaScript support is coming soon! Please use TypeScript for now."

\* A scaffold call is running or has ended whose target path existed when it
\* was called.
TargetExisted ==
    calls > 0 /\ caller = "scaffold" /\ targetDir(opts) \in DOMAIN before

NothingWritten == fsys = before /\ effects = <<>>

\* C1 as stated: a scaffold call whose target path already exists fails with
\* the 'Directory ... already exists' error and writes nothing.
C1_AlwaysExistsError ==
    TargetExisted =>
        /\ pc \in {"pathExists", "rejected"}
        /\ NothingWritten
        /\ pc = "rejected" => thrown = Some(ExistsMessage(opts))

\* C1 as amended: a scaffold call whose target path already exists fails
\* with a precondition error, the 'Directory ... already exists' error when
\* useTs is true and the variant error otherwise, and writes nothing: nothing
\* is copied, no file rewritten, no process spawned, no log written.
C1_ExistingTargetRejected ==
    TargetExisted =>
        /\ pc \in {"pathExists", "rejected"}
        /\ NothingWritten
        /\ pc = "rejected" =>
              thrown = Some(IF opts.useTs THEN ExistsMessage(opts) ELSE VariantMessage)

C1_Witness ==
    /\ TargetExisted
    /\ opts.useTs
    /\ before[targetDir(opts)].kind = "file"
    /\ pc = "rejected"
    /\ thrown = Some(ExistsMessage(opts))

\* C2: runInstall never throws: whatever the options, the child's behaviour
\* and the fate of the log, a runInstall call never rejects, always has a
\* step left until it has returned, and returns an InstallResult.
C2_RunInstallNeverThrows ==
    (calls > 0 /\ caller = "direct") =>
        /\ pc \in {"spawned", "saveLog", "returned"}
        /\ thrown = None
        /\ pc # "returned" => ENABLED NextInstall
        /\ pc = "returned" =>
              /\ result.set
              /\ result.success => result.error = None /\ result.logPath = NoPath
              /\ ~result.success => result.error.some

C2_Witness ==
    /\ caller = "direct"
    /\ pc = "returned"
    /\ error.kind = "spawn"
    /\ ~result.success
    /\ ~result.logPath.some
    /\ thrown = None

\* The designated files of the running call's target that exist.
DesignatedPresent ==
    {f \in {join(targetDir(opts), d) : d \in Designated} :
        f \in DOMAIN fsys /\ fsys[f].kind = "file"}

Substituted == caller = "scaffold" /\ pc \in {"install", "resolved"}

NoTokenRemains ==
    \A f \in DesignatedPresent : \A k \in KnownTokens : ~Includes(fsys[f].content, k)

\* The characters of string s.
Chars(s) == {SubSeq(s, i, i) : i \in 1..Len(s)}

\* The values a request supplies to the substitution.
RequestValues(o) ==
    {o.appName, o.horizonUrl.v, o.sorobanUrl.v} \cup {o.wallets.v[i] : i \in 1..Len(o.wallets.v)}

\* No supplied value holds a brace.
BraceFree(o) == \A v \in RequestValues(o) : Chars(v) \cap {"{", "}"} = {}

\* C3: after substitution no known placeholder token remains in any
\* designated file that exists, here for the requests whose values hold no
\* brace at all (so that no value brings token text of its own).
C3_NoTokenRemains ==
    (Substituted /\ BraceFree(opts)) => NoTokenRemains

\* C4: after a successful copy into a target that did not exist, the entries
\* under the target are exactly the template's entries none of whose path
\* components is named .git or node_modules, each of the template's kind.
Excluded == {".git", "node_modules"}

Kept(t) == {r \in DOMAIN t : \A i \in 1..Len(r) : r[i] \notin Excluded}

Under(f, d) == {SubSeq(p, Len(d) + 1, Len(p)) : p \in {q \in DOMAIN f : IsPrefix(d, q)}}

C4_CopiedEntries ==
    (caller = "scaffold" /\ pc \in {"replace", "install"}) =>
        /\ Under(fsys, targetDir(opts)) = Kept(template)
        /\ \A r \in Kept(template) : fsys[join(targetDir(opts), r)].kind = template[r].kind

C4_Witness ==
    /\ caller = "scaffold"
    /\ pc = "replace"
    /\ <<"src", "node_modules">> \in DOMAIN template
    /\ <<"src", "lib">> \in Under(fsys, targetDir(opts))
    /\ <<"src", "node_modules">> \notin Under(fsys, targetDir(opts))
    /\ <<".git">> \notin Under(fsys, targetDir(opts))

\* C5: substitution touches only the designated files: every other file the
\* running scaffold call copied has its template content, in every later
\* state of the call, also when it holds a known token.
C5_OthersUntouched ==
    (caller = "scaffold" /\ Len(effects) > 0) =>
        \A r \in Kept(template) \ Designated :
            (join(targetDir(opts), r) \in DOMAIN fsys /\ template[r].kind = "file")
                => fsys[join(targetDir(opts), r)] = template[r]

C5_Witness ==
    /\ caller = "scaffold"
    /\ pc = "resolved"
    /\ join(targetDir(opts), <<"README.md">>) \in DOMAIN fsys
    /\ join(targetDir(opts), <<"package.json">>) \in DOMAIN fsys
    /\ fsys[join(targetDir(opts), <<"README.md">>)].content = "# {{APP_NAME}}"
    /\ fsys[join(targetDir(opts), <<"package.json">>)].content
           = "{\"name\":\"" \o opts.appName \o "\"}"

\* The lock files in directory d of file system f.
Locks(f, d) == {l \in LockFiles : join(d, <<l>>) \in DOMAIN f}

\* The user agent names one of the three managers.
UaMatches(ua) ==
    Truthy(ua) /\ \E n \in {"yarn", "pnpm", "npm"} : Includes(ua.v, n)

\* C6: an explicit (non-empty) choice is returned as it is, whatever the user
\* agent and the lock files.
C6_ExplicitWins ==
    (pc = "detected" /\ Truthy(iopts.packageManager))
        => packageManager = iopts.packageManager.v

C6_Witness ==
    /\ pc = "detected"
    /\ iopts.packageManager = Some("pnpm")
    /\ userAgent = Some("yarn/1.22.0")
    /\ Locks(fsys, iopts.cwd) = {"yarn.lock", "package-lock.json"}
    /\ packageManager = "pnpm"

\* C7: with no explicit choice and a user agent naming a manager, the result
\* is a manager the user agent names and is the same for every set of lock
\* files.
C7_UserAgentBeforeLocks ==
    (pc = "detected" /\ ~Truthy(iopts.packageManager) /\ UaMatches(userAgent)) =>
        /\ packageManager \in {"yarn", "pnpm", "npm"}
        /\ Includes(userAgent.v, packageManager)
        /\ \A f \in DetectFs :
              detectPackageManager(f, iopts.cwd, iopts.packageManager, userAgent)
                  = packageManager

C7_Witness ==
    /\ pc = "detected"
    /\ iopts.packageManager = None
    /\ userAgent = Some("pnpm/6.0.0")
    /\ Locks(fsys, iopts.cwd) = {"yarn.lock"}
    /\ packageManager = "pnpm"

\* C8: with no explicit choice and no user-agent match, the lock files alone
\* decide: pnpm-lock.yaml first, then yarn.lock, then package-lock.json, and
\* npm when there is none.
C8_LockFilePriority ==
    (pc = "detected" /\ ~Truthy(iopts.packageManager) /\ ~UaMatches(userAgent)) =>
        packageManager =
            IF "pnpm-lock.yaml" \in Locks(fsys, iopts.cwd) THEN "pnpm"
            ELSE IF "yarn.lock" \in Locks(fsys, iopts.cwd) THEN "yarn"
            ELSE "npm"

C8_Witness ==
    /\ pc = "detected"
    /\ iopts.packageManager = Some("")
    /\ userAgent = Some("YARN/1.22.0")
    /\ Locks(fsys, iopts.cwd) = {"yarn.lock", "pnpm-lock.yaml"}
    /\ packageManager = "pnpm"

\* C9: getInstallCommand maps npm, yarn and pnpm to their fixed tuples and
\* every other input to npm's tuple.
C9_InstallCommandTable ==
    (pc \in {"commanded", "detectedCommanded"}) =>
        command =
            CASE packageManager = "yarn" -> <<"yarn", <<"install", "--non-interactive">>>>
              [] packageManager = "pnpm" -> <<"pnpm", <<"install", "--no-frozen-lockfile">>>>
              [] OTHER -> <<"npm", <<"install", "--no-audit", "--no-fund">>>>

C9_Witness ==
    /\ pc = "commanded"
    /\ packageManager = "bun"
    /\ command = <<"npm", <<"install", "--no-audit", "--no-fund">>>>

\* C10: runInstall with skipInstall set returns exactly {success: true,
\* packageManager: 'skipped'} whatever the other options, having resolved no
\* package manager, spawned nothing, printed nothing and written nothing.
C10_SkipInstall ==
    (calls > 0 /\ caller = "direct" /\ iopts.skipInstall) =>
        /\ pc = "returned"
        /\ result = [set |-> TRUE, success |-> TRUE, packageManager |-> "skipped",
                     error |-> None, logPath |-> NoPath]
        /\ packageManager = ""
        /\ command = NoCommand
        /\ NothingWritten
        /\ console = <<>>

C10_Witness ==
    /\ caller = "direct"
    /\ pc = "returned"
    /\ iopts.skipInstall
    /\ iopts.packageManager = Some("pnpm")
    /\ iopts.timeout = Some(1000)
    /\ result.packageManager = "skipped"

\* A call of runInstall has ended whose child process failed.
InstallFailed == pc \in {"returned", "resolved"} /\ error.set

\* The path <cwd>/.nextellar/install.log of the ended call.
InstallLogPath == iopts.cwd \o <<".nextellar", "install.log">>

\* C11: after every install failure (non-zero exit, timeout, spawn error)
\* the outcome has success false, the resolved package manager and a
\* non-empty error message; when it has a logPath, that is
\* <cwd>/.nextellar/install.log, a file whose content holds the outcome's
\* error message.
C11_FailureOutcome ==
    InstallFailed =>
        /\ result.set /\ ~result.success
        /\ result.packageManager
               = detectPackageManager(before, iopts.cwd, iopts.packageManager, userAgent)
        /\ result.error.some /\ result.error.v # ""
        /\ result.logPath.some =>
               /\ result.logPath.v = InstallLogPath
               /\ InstallLogPath \in DOMAIN fsys
               /\ fsys[InstallLogPath].kind = "file"
               /\ Includes(fsys[InstallLogPath].content, result.error.v)

C11_Witness ==
    /\ InstallFailed
    /\ error.kind = "exit"
    /\ result.logPath.some
    /\ InstallLogPath \in DOMAIN fsys
    /\ Includes(fsys[InstallLogPath].content, "Command failed with exit code 1: pnpm install")
    /\ result.error.v = "Command failed with exit code 1: pnpm install --no-frozen-lockfile"

\* The effects of the ended call hold a successful write of the log file.
LogWritten ==
    \E i \in 1..Len(effects) : effects[i] = Effect("writeFile", InstallLogPath, "")

\* C12: when persisting the log fails during a failed install, runInstall
\* does not throw but warns, and returns the failure outcome with the
\* original error message; logPath is set exactly when the log file was
\* written.
C12_LogFailureCaught ==
    InstallFailed =>
        /\ ~thrown.some
        /\ result.set /\ ~result.success
        /\ result.error = Some(error.message)
        /\ result.logPath.some <=> LogWritten
        /\ ~LogWritten =>
               \E i \in 1..Len(console) : console[i] = "Could not save error log:"

C12_Witness ==
    /\ InstallFailed
    /\ ~result.logPath.some
    /\ result.error = Some(error.message)
    /\ \E i \in 1..Len(effects) : effects[i].arg = "failed"

\* The two entries a failed install may add below the target directory.
LogEntries ==
    {targetDir(opts) \o <<".nextellar">>, targetDir(opts) \o <<".nextellar", "install.log">>}

\* A step leaves every entry other than the log entries as it is, and adds
\* no other entry.
OnlyLogEntriesChange ==
    \A p \in (DOMAIN fsys \cup DOMAIN fsys') \ LogEntries :
        p \in DOMAIN fsys /\ p \in DOMAIN fsys' /\ fsys'[p] = fsys[p]

\* The lines hold the headline of displaySuccess and no error line.
Succeeded(lines) ==
    /\ \E i \in 1..Len(lines) :
          lines[i] \in {"Nextellar scaffold complete!", "Project scaffolded successfully!"}
    /\ \A i \in 1..Len(lines) : SubSeq(lines[i], 1, 7) # "Error: "

Printed(line) == \E i \in 1..Len(console) : console[i] = line

\* C15: the CLI process exits with a non-zero status exactly when scaffold
\* threw, and then the last line it printed is the error message; when
\* scaffold resolved it exits with 0, and with --skip-install it has printed
\* the ready line and the target directory exists. It has no exit status
\* before that.
C15_ExitStatus ==
    argv.set =>
        IF pc = "exited"
            THEN /\ exitCode.some
                 /\ (exitCode.v # 0) <=> thrown.some
                 /\ thrown.some =>
                        (Len(console) > 0 /\ console[Len(console)] = "Error: " \o thrown.v)
                 /\ (~thrown.some /\ argv.skipInstall) =>
                        /\ exitCode.v = 0
                        /\ Printed("Your Nextellar app is ready!")
                        /\ targetDir(opts) \in DOMAIN fsys
                        /\ fsys[targetDir(opts)].kind = "dir"
            ELSE ~exitCode.some

C15_Witness ==
    /\ argv.set
    /\ pc = "exited"
    /\ exitCode = [some |-> TRUE, v |-> 1]
    /\ thrown = Some("EACCES: permission denied")
    /\ console[Len(console)] = "Error: EACCES: permission denied"

FsErrors ==
    {"EACCES: permission denied", "EIO: i/o error",
     "EISDIR: illegal operation on a directory, read"}

NoSpawn == \A i \in 1..Len(effects) : effects[i].op # "spawn"

\* The designated file number j of the running call, and its template text
\* with every placeholder of the request substituted.
DesignatedFile(j) == targetDir(opts) \o filesToProcess[j]

Rewritten(j) ==
    File(replaceEntries(template[filesToProcess[j]].content, config(opts)))

InTemplate(j) ==
    filesToProcess[j] \in Kept(template) /\ template[filesToProcess[j]].kind = "file"

\* C14: when the copy or the rewrite of a designated file fails, scaffold
\* rejects with the file system error and cleans nothing up: the files it
\* rewrote before stay rewritten, the later ones stay as copied, and no step
\* after the rejection changes the file system; the install step is reached
\* only with the whole template copied and every designated file rewritten.
C14_FsFailureFatal ==
    /\ []((caller = "scaffold" /\ pc = "rejected" /\ effects # <<>>)
             => (thrown.some /\ thrown.v \in FsErrors /\ NoSpawn /\ ~result.set))
    /\ []((caller = "scaffold" /\ pc = "rejected" /\ effects # <<>>
              /\ effects[1] = Effect("copy", targetDir(opts), ""))
             => \A j \in 1..Len(filesToProcess) : InTemplate(j) =>
                    /\ DesignatedFile(j) \in DOMAIN fsys
                    /\ j < fileIdx => fsys[DesignatedFile(j)] = Rewritten(j)
                    /\ j > fileIdx => fsys[DesignatedFile(j)] = template[filesToProcess[j]])
    /\ []((caller = "scaffold" /\ pc \in {"install", "spawned", "saveLog", "resolved"})
             => /\ \A r \in Kept(template) : targetDir(opts) \o r \in DOMAIN fsys
                /\ \A j \in 1..Len(filesToProcess) : InTemplate(j) =>
                       fsys[DesignatedFile(j)] = Rewritten(j))
    /\ [][pc = "rejected" => fsys' = fsys]_vars

C14_Witness ==
    /\ caller = "scaffold"
    /\ pc = "rejected"
    /\ thrown = Some("EIO: i/o error")
    /\ fileIdx = 2
    /\ DesignatedFile(1) \in DOMAIN fsys
    /\ fsys[DesignatedFile(1)].content = "{\"name\":\"" \o opts.appName \o "\"}"
    /\ DesignatedFile(3) \in DOMAIN fsys
    /\ fsys[DesignatedFile(3)].content = "w={{WALLETS}};n='{{NETWORK}}'"
    /\ NoSpawn

\* A timed-out install is handled as a failure: the outcome carries the
\* timeout message of the configured bound, the remediation is printed and
\* the log is persisted (or its failure warned about).
TimeoutHandled ==
    (InstallFailed /\ error.kind = "timeout") =>
        /\ result.set /\ ~result.success
        /\ result.error.some
        /\ Includes(result.error.v,
                    "timed out after "
                    \o ToString(IF iopts.timeout.some THEN iopts.timeout.v ELSE 1200000)
                    \o " milliseconds")
        /\ Printed("To resolve this issue:")
        /\ LogWritten \/ Printed("Could not save error log:")
        /\ LogWritten <=> result.logPath.some

\* The timeout given to runInstall, if one is given, is above 0.
PositiveTimeout == iopts.timeout.some => iopts.timeout.v > 0

\* C17 as stated: a timed-out install is handled as a failure, and runInstall
\* returns after every spawn, whatever the child does and whatever timeout
\* is configured.
C17_AlwaysReturns ==
    /\ []TimeoutHandled
    /\ (pc = "spawned") ~> (pc = "returned" /\ result.set)

\* C17, amended: a timed-out install is handled as a failure, and runInstall
\* returns after every spawn, whatever the child does, when the configured
\* timeout is above 0 (or absent, which means twenty minutes).
C17_ReturnsWithinTimeout ==
    /\ []TimeoutHandled
    /\ (pc = "spawned" /\ PositiveTimeout) ~> (pc = "returned" /\ result.set)

C17_Witness ==
    /\ InstallFailed
    /\ error.kind = "timeout"
    /\ iopts.timeout = [some |-> TRUE, v |-> 1000]
    /\ Includes(result.error.v, "Command timed out after 1000 milliseconds: pnpm install")
    /\ result.logPath.some

\* The tree below directory d as the materializer leaves it: every entry
\* below d other than the installer's .nextellar directory, with its node.
Materialized(d) ==
    LET rels == {r \in Under(fsys, d) : r = <<>> \/ r[1] # ".nextellar"}
    IN  [r \in rels |-> fsys[d \o r]]

MapValue(m, k) == m[CHOOSE i \in 1..Len(m) : m[i][1] = k][2]

\* The running scaffold call has computed its placeholder map.
MapComputed == caller = "scaffold" /\ pc \in {"replace", "install", "resolved"}

Given(u) == u.some /\ u.v # ""

WalletsGiven(o) == o.wallets.some /\ o.wallets.v # <<>>

ExpectedWallets(o) ==
    JsonStringify(IF WalletsGiven(o) THEN o.wallets.v
                  ELSE <<"freighter", "albedo", "lobstr">>)

KitFile == targetDir(opts) \o <<"src", "lib", "stellar-wallet-kit.ts">>

\* C19: the placeholder map is a function of the request: the project name,
\* each endpoint override or its testnet default when the override is absent
\* or empty, and the JSON text of the wallet list in its order, or of
\* [freighter, albedo, lobstr] when the list is absent or empty; the wallet
\* text is what the rewritten wallet-kit file holds.
C19_PlaceholderMap ==
    MapComputed =>
        /\ MapValue(config(opts), "{{APP_NAME}}") = opts.appName
        /\ MapValue(config(opts), "{{HORIZON_URL}}")
               = (IF Given(opts.horizonUrl) THEN opts.horizonUrl.v
                  ELSE "https://horizon-testnet.stellar.org")
        /\ MapValue(config(opts), "{{SOROBAN_URL}}")
               = (IF Given(opts.sorobanUrl) THEN opts.sorobanUrl.v
                  ELSE "https://soroban-testnet.stellar.org")
        /\ MapValue(config(opts), "{{WALLETS}}") = ExpectedWallets(opts)
        /\ (template = TemplateA /\ Substituted) =>
               Includes(fsys[KitFile].content, "w=" \o ExpectedWallets(opts) \o ";")

C19_Witness ==
    /\ Substituted
    /\ template = TemplateA
    /\ opts.wallets = Some(<<>>)
    /\ opts.appName = "demo"
    /\ Includes(fsys[KitFile].content, "w=[\"freighter\",\"albedo\",\"lobstr\"];")
    /\ fsys[targetDir(opts) \o <<"src", "contexts", "WalletProvider.tsx">>].content
         = "https://horizon-testnet.stellar.org https://soroban-testnet.stellar.org https://horizon-testnet.stellar.org"

\* The Horizon override is given and holds the text public.
HorizonPublic(o) == o.horizonUrl.some /\ Includes(o.horizonUrl.v, "public")

\* C20: the network value is PUBLIC exactly when a Horizon override is given
\* and holds the lower-case text public, and TESTNET otherwise, whatever the
\* Soroban override is; it is what the rewritten wallet-kit file holds.
C20_Network ==
    MapComputed =>
        /\ MapValue(config(opts), "{{NETWORK}}")
               = (IF HorizonPublic(opts) THEN "PUBLIC" ELSE "TESTNET")
        /\ (template = TemplateA /\ Substituted) =>
               /\ Includes(fsys[KitFile].content, ";n='PUBLIC'") <=> HorizonPublic(opts)
               /\ Includes(fsys[KitFile].content, ";n='TESTNET'") <=> ~HorizonPublic(opts)

C20_Witness ==
    /\ Substituted
    /\ template = TemplateA
    /\ opts.horizonUrl = Some("https://PUBLIC/{{APP_NAME}}")
    /\ opts.sorobanUrl = Some("https://soroban.public.org")
    /\ Includes(fsys[KitFile].content, ";n='TESTNET'")

-----------------------------------------------------------------------------
\* The position of the leftmost occurrence of a known token in s, 0 if none.
FirstToken(s) ==
    LET hits == {IndexOf(s, k, 1) : k \in KnownTokens} \ {0}
    IN  IF hits = {} THEN 0 ELSE CHOOSE i \in hits : \A j \in hits : i <= j

\* The known token that starts at position i of s.
TokenAt(s, i) ==
    CHOOSE k \in KnownTokens :
        i + Len(k) - 1 <= Len(s) /\ SubSeq(s, i, i + Len(k) - 1) = k

\* res is orig with each known-token occurrence (left to right, not
\* overlapping) replaced by some text, and every other character kept.
RECURSIVE Framed(_, _)
Framed(orig, res) ==
    LET i == FirstToken(orig)
    IN  IF i = 0 THEN res = orig
        ELSE /\ Len(res) >= i - 1
             /\ SubSeq(res, 1, i - 1) = SubSeq(orig, 1, i - 1)
             /\ \E j \in i..(Len(res) + 1) :
                    Framed(SubSeq(orig, i + Len(TokenAt(orig, i)), Len(orig)),
                           SubSeq(res, j, Len(res)))

\* The template's content of the designated file at target path f.
TemplateContent(f) ==
    template[SubSeq(f, Len(targetDir(opts)) + 1, Len(f))].content

\* C21: after substitution every designated file is its template text with
\* only the occurrences of the five known tokens replaced: unknown tokens and
\* all other text outside those occurrences are as they were, and no error
\* was raised.
C21_UnknownTokensKept ==
    Substituted =>
        /\ thrown = None
        /\ \A f \in DesignatedPresent : Framed(TemplateContent(f), fsys[f].content)

\* A file with a known token, an unknown token and a single-brace look-alike
\* was rewritten with a value that itself holds token text.
C21_Witness ==
    /\ Substituted
    /\ template = TemplateC
    /\ opts.appName = "{{WALLETS}}"
    /\ <<"{{WALLETS}}", "package.json">> \in DesignatedPresent
    /\ fsys[<<"{{WALLETS}}", "package.json">>].content # template[<<"package.json">>].content
    /\ Includes(fsys[<<"{{WALLETS}}", "package.json">>].content, "{{app_name}}{APP_NAME}")

-----------------------------------------------------------------------------
RECURSIVE TrimStart(_)
\* s without its leading spaces.
TrimStart(s) ==
    IF s # "" /\ SubSeq(s, 1, 1) = " " THEN TrimStart(SubSeq(s, 2, Len(s))) ELSE s

\* The line is a shell command a user can paste: a cd or a package manager
\* call.
IsCommand(line) ==
    \E c \in {"cd ", "npm ", "yarn ", "pnpm "} :
        Len(TrimStart(line)) >= Len(c) /\ SubSeq(TrimStart(line), 1, Len(c)) = c

\* The line at i and the next one are the two remediation commands of the
\* install that failed.
RemediationAt(i) ==
    /\ console[i] = "   cd " \o basename(targetDir(opts))
    /\ console[i + 1] = "   " \o command[1] \o " " \o JoinWith(command[2], " ")

\* C22 as stated: every CLI run that failed (scaffold threw, or the install
\* failed) has printed a command line by the time it ends.
C22_EveryFailurePrintsCommand ==
    (argv.set /\ pc = "exited" /\ (thrown.some \/ error.set))
        => \E i \in 1..Len(console) : IsCommand(console[i])

\* C22, amended: a run whose install failed has printed, once runInstall has
\* returned, the cd line and the install command line; a run in which scaffold
\* threw (variant, existing target, copy or substitution failure) ends having
\* printed the error message last and no command line at all.
C22_RemediationOnInstallFailureOnly ==
    /\ (argv.set /\ pc \in {"resolved", "exited"} /\ error.set)
           => \E i \in 1..(Len(console) - 1) : RemediationAt(i)
    /\ (argv.set /\ pc = "exited" /\ thrown.some)
           => /\ console[Len(console)] = "Error: " \o thrown.v
              /\ \A i \in 1..Len(console) : ~IsCommand(console[i])

\* A CLI run whose pnpm install failed has ended with both remediation lines
\* printed.
C22_Witness ==
    /\ argv.set
    /\ pc = "exited"
    /\ error.set
    /\ command[1] = "pnpm"
    /\ Printed("   cd " \o argv.projectName)
    /\ Printed("   pnpm install --no-frozen-lockfile")

-----------------------------------------------------------------------------
\* The recursive copy of the running scaffold call has completed.
CopyCompleted ==
    Len(effects) >= 1 /\ effects[1] = Effect("copy", targetDir(opts), "")

\* Every designated file that exists was rewritten before effect number i.
AllRewrittenBefore(i) ==
    \A j \in 1..Len(filesToProcess) :
        (DesignatedFile(j) \in DOMAIN fsys /\ fsys[DesignatedFile(j)].kind = "file")
            => \E k \in 1..(i - 1) : effects[k] = Effect("writeFile", DesignatedFile(j), "")

\* C23: the phases of a scaffold call are strictly ordered. The copy is its
\* first effect, and the substitution loop runs, and any later effect
\* happens, only once the copy has completed; the package manager is detected
\* and the install is spawned only after every designated file that exists
\* has been rewritten; scaffold resolves only after runInstall has returned
\* its outcome.
C23_PhasesOrdered ==
    caller = "scaffold" =>
        /\ \A i \in 1..Len(effects) : effects[i].op = "copy" <=> i = 1
        /\ (pc = "replace" \/ Len(effects) >= 2) => CopyCompleted
        /\ \A i \in 1..Len(effects) : effects[i].op = "spawn" => AllRewrittenBefore(i)
        /\ packageManager # "" =>
               /\ pc \in {"spawned", "saveLog", "resolved"}
               /\ AllRewrittenBefore(Len(effects) + 1)
        /\ pc = "resolved" =>
               /\ result.set
               /\ ~NoSpawn => (result.success \/ error.set)

\* A call that copied, rewrote two designated files, spawned the install and
\* resolved after the install had failed.
C23_Witness ==
    /\ caller = "scaffold"
    /\ pc = "resolved"
    /\ error.set
    /\ Len(effects) >= 4
    /\ effects[1].op = "copy"
    /\ effects[2].op = "writeFile"
    /\ effects[3].op = "writeFile"
    /\ effects[4].op = "spawn"

-----------------------------------------------------------------------------
\* The install log paths of the file system f.
LogPaths(f) ==
    {p \in DOMAIN f : Len(p) >= 2 /\ SubSeq(p, Len(p) - 1, Len(p)) = <<".nextellar", "install.log">>}

\* The step creates the install log at p or changes it.
LogTouched(p) == p \notin DOMAIN fsys \/ fsys'[p] # fsys[p]

\* The step is the log write of a failed call, the first write of the log in
\* that call.
FailedCallWrites(p) ==
    /\ pc = "saveLog"
    /\ error.set
    /\ p = iopts.cwd \o <<".nextellar", "install.log">>
    /\ \A i \in 1..Len(effects) : ~(effects[i].op = "writeFile" /\ effects[i].path = p)

\* The record of the running call.
CallRecord == File(logContent(iopts.cwd, error, packageManager, calls))

\* C24 as stated: an install log is created or changed only by the log write
\* of a failed call, at most once per call, and what that step leaves is
\* exactly the record of that call, written successfully; no log is removed.
\* (So the log exists only after a failed call and always holds the record of
\* the most recent failed call whose write succeeded.)
C24_LogIsLastRecord ==
    [][/\ LogPaths(fsys) \subseteq LogPaths(fsys')
       /\ \A p \in LogPaths(fsys') : LogTouched(p) =>
              /\ FailedCallWrites(p)
              /\ fsys'[p] = CallRecord
              /\ result'.logPath = SomePath(p)]_vars

\* C24, amended: an install log is created or changed only by the log write
\* of a failed call, at most once per call; a write that succeeds leaves
\* exactly the record of that call in place of the old content, and a write
\* that fails can leave the log empty (the outcome then has no logPath). No
\* successful or skipped call and no other step touches a log, and no log is
\* removed.
C24_LogOnlyByFailedCall ==
    [][/\ LogPaths(fsys) \subseteq LogPaths(fsys')
       /\ \A p \in LogPaths(fsys') : LogTouched(p) =>
              /\ FailedCallWrites(p)
              /\ \/ fsys'[p] = CallRecord /\ result'.logPath = SomePath(p)
                 \/ fsys'[p] = File("") /\ result'.logPath = NoPath]_vars

\* The second call against demo failed too and its record replaced the first
\* call's.
C24_Witness ==
    /\ calls = 2
    /\ InstallFailed
    /\ iopts.cwd = <<"demo">>
    /\ InstallLogPath \in DOMAIN before
    /\ before[InstallLogPath].content # ""
    /\ LogWritten
    /\ fsys[InstallLogPath] = CallRecord
    /\ fsys[InstallLogPath] # before[InstallLogPath]

-----------------------------------------------------------------------------
\* The manager the lock files of directory d name, npm when there is none.
ByLockFiles(f, d) ==
    IF "pnpm-lock.yaml" \in Locks(f, d) THEN "pnpm"
    ELSE IF "yarn.lock" \in Locks(f, d) THEN "yarn"
    ELSE "npm"

\* The user agent decides the detection of the applied call.
UaConsulted == pc = "detected" /\ ~Truthy(iopts.packageManager) /\ Truthy(userAgent)

\* The result for a user agent that holds a manager name: yarn before pnpm
\* before npm.
FirstMatchWins ==
    /\ Includes(userAgent.v, "yarn") => packageManager = "yarn"
    /\ (Includes(userAgent.v, "pnpm") /\ ~Includes(userAgent.v, "yarn"))
           => packageManager = "pnpm"
    /\ (Includes(userAgent.v, "npm") /\ ~Includes(userAgent.v, "pnpm")
            /\ ~Includes(userAgent.v, "yarn")) => packageManager = "npm"

\* C25 as stated: the first match in the order yarn, pnpm, npm wins; a user
\* agent with pnpm and without yarn gives pnpm; and the user agents
\* "YARN/1.22.0" and "Pnpm" match nothing, so that the lock files decide.
C25_PnpmCapitalizedNoMatch ==
    UaConsulted =>
        /\ FirstMatchWins
        /\ userAgent.v \in {"YARN/1.22.0", "Pnpm"}
               => packageManager = ByLockFiles(fsys, iopts.cwd)

\* C25, amended: the first match in the order yarn, pnpm, npm wins; a user
\* agent with pnpm and without yarn gives pnpm; a user agent that holds none
\* of the three lower-case names, such as "YARN/1.22.0", matches nothing and
\* the lock files decide; "Pnpm" holds the name npm and gives npm whatever the
\* lock files are.
C25_FirstMatchCaseSensitive ==
    UaConsulted =>
        /\ FirstMatchWins
        /\ ~UaMatches(userAgent) => packageManager = ByLockFiles(fsys, iopts.cwd)
        /\ userAgent.v = "Pnpm" => packageManager = "npm"

\* A user agent naming all three managers gave yarn over a pnpm lock file.
C25_Witness ==
    /\ pc = "detected"
    /\ iopts.packageManager = None
    /\ userAgent = Some("yarn pnpm npm")
    /\ Locks(fsys, iopts.cwd) = {"pnpm-lock.yaml"}
    /\ packageManager = "yarn"

-----------------------------------------------------------------------------
\* The spawn effects of the running call.
Spawns == {s \in 1..Len(effects) : effects[s].op = "spawn"}

-----------------------------------------------------------------------------
RECURSIVE SinglePass(_, _)
\* One simultaneous pass over s: each occurrence of a known token, found left
\* to right in s itself, gives way to its mapped value, taken as it is.
SinglePass(s, m) ==
    LET i == FirstToken(s)
    IN  IF i = 0 THEN s
        ELSE SubSeq(s, 1, i - 1)
             \o MapValue(m, TokenAt(s, i))
             \o SinglePass(SubSeq(s, i + Len(TokenAt(s, i)), Len(s)), m)

\* C27: after substitution every designated file equals the single
\* simultaneous pass over its template text, whatever the values hold; text
\* that was inserted is not substituted again.
C27_SinglePass ==
    Substituted =>
        \A f \in DesignatedPresent :
            fsys[f].content = SinglePass(TemplateContent(f), config(opts))

-----------------------------------------------------------------------------
\* The running call and the suspended one were given the same target.
SameTarget ==
    /\ opts # NoOpts
    /\ parked.opts # NoOpts
    /\ targetDir(opts) = targetDir(parked.opts)

\* The effects es hold a completed copy into d and a rewrite of d's
\* package.json.
CopiedAndSubstituted(es, d) ==
    /\ \E i \in 1..Len(es) : es[i] = Effect("copy", d, "")
    /\ \E i \in 1..Len(es) : es[i] = Effect("writeFile", d \o <<"package.json">>, "")

\* C28: the existence check and the copy are separate steps and the check
\* reserves nothing: while one of two calls aimed at the same path that did
\* not exist stands between its check and its copy, the path still does not
\* exist, so the check of the other call passes as well; and a call whose
\* check passed copies and rewrites whatever the other call has done since.
C28_CheckReservesNothing ==
    /\ (SameTarget /\ targetDir(opts) \notin DOMAIN before
          /\ pc = "copy" /\ parked.pc \in {"pathExists", "copy"})
           => ~pathExists(fsys, targetDir(opts))
    /\ (SameTarget /\ targetDir(opts) \notin DOMAIN before
          /\ targetDir(opts) \notin DOMAIN parked.before
          /\ pc = "resolved" /\ parked.pc = "resolved")
           => /\ CopiedAndSubstituted(effects, targetDir(opts))
              /\ CopiedAndSubstituted(parked.effects, targetDir(opts))

\* Both calls passed the check of the same path, and both copied into it and
\* rewrote its package.json; neither was rejected.
C28_Witness ==
    /\ SameTarget
    /\ targetDir(opts) \notin DOMAIN before
    /\ targetDir(opts) \notin DOMAIN parked.before
    /\ pc = "resolved"
    /\ parked.pc = "resolved"
    /\ thrown = None
    /\ parked.thrown = None
    /\ CopiedAndSubstituted(effects, targetDir(opts))
    /\ CopiedAndSubstituted(parked.effects, targetDir(opts))

-----------------------------------------------------------------------------
\* The executable of the spawn effect e: the command line up to its first
\* space.
Executable(e) == SubSeq(e.arg, 1, IndexOf(e.arg, " ", 1) - 1)

\* C29: when a runInstall call that spawned has ended, the packageManager of
\* its outcome, and the manager its progress line and its success or failure
\* line name, is the executable that was spawned.
C29_OutcomeNamesExecutable ==
    (pc \in {"returned", "resolved"} /\ result.set) =>
        \A s \in Spawns :
            /\ result.packageManager = Executable(effects[s])
            /\ Printed("Installing dependencies with " \o Executable(effects[s]) \o "...")
            /\ \/ Printed("Dependencies installed successfully with " \o Executable(effects[s]))
               \/ Printed("Installation failed with " \o Executable(effects[s]))

-----------------------------------------------------------------------------
\* The step removes no entry of the file system and turns no directory into
\* a file or a file into a directory.
NothingRemoved ==
    \A p \in DOMAIN fsys : p \in DOMAIN fsys' /\ fsys'[p].kind = fsys[p].kind

\* A CLI run found its target path existing and has ended.
BlockedRunEnded == argv.set /\ TargetExisted /\ pc = "exited"

\* C30 as stated: no step removes what a run created, and every CLI run that
\* finds its target path existing ends with the already-exists error, status
\* 1 and nothing changed, whatever its options.
C30_AlwaysAlreadyExists ==
    /\ [][NothingRemoved]_vars
    /\ []((argv.set /\ TargetExisted) => (NothingWritten /\ pc \in {"pathExists", "rejected", "exited"}))
    /\ [](BlockedRunEnded =>
             /\ exitCode = [some |-> TRUE, v |-> 1]
             /\ console = <<"Error: " \o ExistsMessage(opts)>>)

\* C30, amended: no step removes what a run created (not after a failed copy
\* or rewrite, nor after a failed install), and every CLI run that finds its
\* target path existing ends with status 1 and nothing changed, with or
\* without --skip-install: with the already-exists error, or, when
\* --javascript was given, with the variant error, which is checked first.
C30_CreatedTargetBlocks ==
    /\ [][NothingRemoved]_vars
    /\ []((argv.set /\ TargetExisted) => (NothingWritten /\ pc \in {"pathExists", "rejected", "exited"}))
    /\ [](BlockedRunEnded =>
             /\ exitCode = [some |-> TRUE, v |-> 1]
             /\ console = <<"Error: " \o (IF argv.javascript THEN VariantMessage
                                          ELSE ExistsMessage(opts))>>)

\* The second run, with --skip-install, of a project name whose directory the
\* first run had created: rejected with the already-exists error, the
\* directory as the first run left it.
C30_Witness ==
    /\ BlockedRunEnded
    /\ calls = 2
    /\ argv.skipInstall
    /\ ~argv.javascript
    /\ targetDir(opts) \o <<"package.json">> \in DOMAIN before
    /\ fsys = before
    /\ thrown = Some(ExistsMessage(opts))

====
